---- MODULE Spec2Model ----
(***************************************************************************)
(* Model of package events (src/events.go): an emitter holding a           *)
(* sync.Map from EventName to []Listener, a maxListeners cap and a mutex.  *)
(*                                                                         *)
(* Slices are modelled as Go has them: a header (array, len) over a        *)
(* backing array in `heap`, so that the in-place append of RemoveListener  *)
(* and the capacity-dependent append of AddListener alias exactly as the   *)
(* program's slices do.  A goroutine is a call stack of Emit frames plus   *)
(* the position of the call it is making (idle / wait for mu / crit).      *)
(***************************************************************************)
EXTENDS Integers, Sequences, FiniteSets, TLC

VARIABLES
  maxListeners,  \* emitter.maxListeners
  evtListeners,  \* emitter.evtListeners: function, DOMAIN = the stored keys
  heap,          \* backing arrays of the []Listener values, by array id
  mu,            \* emitter.mu: 0 when unlocked, else the goroutine holding it
  pc,            \* per goroutine: "idle", "wait" (in mu.Lock), "crit" (holds mu),
                 \* "stored" (AddListener past its LoadOrStore)
  call,          \* per goroutine: the call being made (op and arguments)
  stack,         \* per goroutine: the Emit frames it is inside, innermost last
  ret,           \* per goroutine: the call that just returned to its top-level code
                 \* and its result, until that code goes on
  actor,         \* history: the goroutine that took the latest step
  fault,         \* history: the latest step was a listener raising a fault
  fresh,         \* history: only AddListener/On calls were made since New()
  passed,        \* history: listeners passed per name while fresh
  once           \* history: <<name, listener>> registered through Once only,
                 \* mapped to the number of times Emit invoked it since

vars == <<maxListeners, evtListeners, heap, mu, pc, call, stack, ret,
          actor, fault, fresh, passed, once>>

----------------------------------------------------------------------------
(* Bounds of the model                                                     *)

MaxLen == 3        \* listeners registered (or being registered), all names together
MaxArgs == 2       \* listeners passed to one AddListener/On/Once call
MaxCap == 2        \* largest value passed to SetMaxListeners
MaxDepth == 2      \* Emit frames on one goroutine's stack

(* Program constants                                                       *)

DefaultMaxListeners == 0

----------------------------------------------------------------------------
(* Values                                                                  *)

Goroutines == {1, 2}

Names == {"a", "b"}
NameSeq == <<"a", "b">>

\* Three func values.  L1 and L1b are two closures made from the same func
\* literal: distinct values sharing one code pointer.  L2 is other code.
ListenerSet == {"L1", "L1b", "L2"}
NoListener == "nil"

\* reflect.ValueOf(l).Pointer() for a func value: the code pointer.
Pointer(l) == CASE l = "L1" -> 1
                [] l = "L1b" -> 1
                [] l = "L2" -> 2
                [] OTHER -> 0

Payloads == {<<"x", "y">>, <<>>}

SeqsUpTo(S, n) == UNION {[1..k -> S] : k \in 0..n}

ArgLists == SeqsUpTo(ListenerSet, MaxArgs)

Range(s) == {s[i] : i \in 1..Len(s)}

\* Slice headers: arr = NilArr is the nil slice, arr = ZeroBase is the
\* zero-capacity array every empty literal []Listener{} points to.
NilArr == -1
ZeroBase == 0
NilSlice == [arr |-> NilArr, len |-> 0]
EmptySlice == [arr |-> ZeroBase, len |-> 0]

ArrOf(h, a) == IF a <= 0 THEN <<>> ELSE h[a]
CapOf(h, s) == Len(ArrOf(h, s.arr))
\* The elements a slice header sees, read from the backing array now.
Elems(h, s) == SubSeq(ArrOf(h, s.arr), 1, s.len)

NoCall == [op |-> "none"]
NoRet == [op |-> "none"]

----------------------------------------------------------------------------
(* Go slices: append and the backing arrays                                *)

\* One array per registry entry, per Emit frame and per returned slice can
\* be alive at once, plus the one an append is allocating.
ArrIds == 1..(Cardinality(Names) + Cardinality(Goroutines) * (MaxDepth + 2) + 1)

\* runtime.roundupsize for 8-byte elements, in elements: the allocator's
\* small size classes 8, 16, 24, 32, 48, 64, 80, 96, 112, 128 bytes.
RoundUpSize(c) ==
  LET classes == {1, 2, 3, 4, 6, 8, 10, 12, 14, 16}
  IN  CHOOSE k \in classes : k >= c /\ \A j \in classes : j >= c => k <= j

\* runtime.growslice: the capacity of the array append allocates when
\* newLen elements do not fit in oldCap (oldCap < 256).
GrowCap(newLen, oldCap) ==
  RoundUpSize(IF newLen > 2 * oldCap THEN newLen ELSE 2 * oldCap)

FreeArr(h) == CHOOSE a \in ArrIds : Len(h[a]) = 0 /\ \A b \in ArrIds : Len(h[b]) = 0 => a <= b

\* append(s, xs...): writes in place when the elements fit in the capacity
\* of s's array (whoever else sees that array sees the write), and copies
\* into a new, larger array otherwise.  Result: the heap and the new header.
GoAppend(h, s, xs) ==
  LET newLen == s.len + Len(xs)
      old == ArrOf(h, s.arr)
  IN  IF Len(xs) = 0
        THEN [heap |-> h, s |-> s]
      ELSE IF newLen <= Len(old)
        THEN [heap |-> [h EXCEPT ![s.arr] =
                          [i \in 1..Len(old) |->
                             IF i > s.len /\ i <= newLen THEN xs[i - s.len] ELSE old[i]]],
              s |-> [arr |-> s.arr, len |-> newLen]]
      ELSE LET a == FreeArr(h)
               c == GrowCap(newLen, Len(old))
           IN  [heap |-> [h EXCEPT ![a] =
                            [i \in 1..c |->
                               IF i <= s.len THEN old[i]
                               ELSE IF i <= newLen THEN xs[i - s.len]
                               ELSE NoListener]],
                s |-> [arr |-> a, len |-> newLen]]

\* The slice headers the program holds, in a fixed order: the registry's
\* values, each goroutine's Emit frames, each goroutine's returned slice.
RECURSIVE Flatten(_)
Flatten(ss) == IF Len(ss) = 0 THEN <<>> ELSE Head(ss) \o Flatten(Tail(ss))

RootHdrs(reg, st, rt) ==
  LET regH == [i \in 1..Len(NameSeq) |->
                 IF NameSeq[i] \in DOMAIN reg THEN reg[NameSeq[i]] ELSE NilSlice]
      frH(t) == [i \in 1..Len(st[t]) |-> st[t][i].s]
      rtH(t) == IF rt[t].op = "Listeners" THEN <<rt[t].val>> ELSE <<>>
  IN  regH \o Flatten([t \in 1..Cardinality(Goroutines) |-> frH(t) \o rtH(t)])

RECURSIVE Dedup(_, _)
Dedup(s, acc) ==
  IF Len(s) = 0 THEN acc
  ELSE IF Head(s) <= 0 \/ Head(s) \in Range(acc) THEN Dedup(Tail(s), acc)
  ELSE Dedup(Tail(s), Append(acc, Head(s)))

\* Garbage collection and address-independence: arrays no header reaches are
\* freed, the live ones are renumbered in root order, and the slots of an
\* array beyond every live header's len (which the program never reads
\* before overwriting them) are zeroed.  hdrs are the root headers and
\* order the live arrays in the order the roots reach them.
Renumbered(h, reg, st, rt, hdrs, order) ==
  LET k == Len(order)
      Ren(a) == IF \E j \in 1..k : order[j] = a
                  THEN CHOOSE j \in 1..k : order[j] = a ELSE 0
      Live(j) ==
        LET seen == {hdrs[i].len : i \in {x \in 1..Len(hdrs) : hdrs[x].arr = order[j]}}
        IN  CHOOSE n \in seen : \A m \in seen : m <= n
      reH(s) == [arr |-> IF s.arr <= 0 THEN s.arr ELSE Ren(s.arr), len |-> s.len]
  IN  [heap |-> [a \in ArrIds |->
                   IF a > k THEN <<>>
                   ELSE [i \in 1..Len(h[order[a]]) |->
                           IF i <= Live(a) THEN h[order[a]][i] ELSE NoListener]],
       reg |-> [n \in DOMAIN reg |-> reH(reg[n])],
       stack |-> [t \in Goroutines |->
                    IF Len(st[t]) = 0 THEN <<>>
                    ELSE [i \in 1..Len(st[t]) |-> [st[t][i] EXCEPT !.s = reH(@)]]],
       ret |-> [t \in Goroutines |->
                  IF rt[t].op = "Listeners" THEN [rt[t] EXCEPT !.val = reH(@)] ELSE rt[t]]]

\* (The roots and the order are bound by \in rather than LET so that they
\* are computed once.)
Canon(h, reg, st, rt) ==
  CHOOSE c \in UNION {{Renumbered(h, reg, st, rt, hdrs, order) :
                         order \in {Dedup([i \in 1..Len(hdrs) |-> hdrs[i].arr], <<>>)}} :
                      hdrs \in {RootHdrs(reg, st, rt)}} : TRUE

\* The step's result, canonical.  When the step wrote no array and moved no
\* header there is nothing to collect or renumber.
Commit(h, reg, st, rt) ==
  \E hv \in {h}, regv \in {reg}, stv \in {st}, rtv \in {rt} :
    \E c \in {IF hv = heap /\ RootHdrs(regv, stv, rtv) = RootHdrs(evtListeners, stack, ret)
                 THEN [heap |-> hv, reg |-> regv, stack |-> stv, ret |-> rtv]
                 ELSE Canon(hv, regv, stv, rtv)} :
      /\ heap' = c.heap
      /\ evtListeners' = c.reg
      /\ stack' = c.stack
      /\ ret' = c.ret

----------------------------------------------------------------------------
(* Read-only methods, as functions of the state                            *)

\* A Load that answers an absent key with an empty slice and ok.
LoadAlwaysOk(evt) == IF evt \in DOMAIN evtListeners
                       THEN [val |-> evtListeners[evt], ok |-> TRUE]
                       ELSE [val |-> EmptySlice, ok |-> TRUE]

\* evtListeners.Load(evt): the stored slice and whether the key is there.
Load(evt) == IF evt \in DOMAIN evtListeners
               THEN [val |-> evtListeners[evt], ok |-> TRUE]
               ELSE [val |-> NilSlice, ok |-> FALSE]

GetMaxListeners == maxListeners

ListenerCount(evt) == IF Load(evt).ok THEN Load(evt).val.len ELSE 0

Listeners(evt) == IF Load(evt).ok THEN Load(evt).val ELSE NilSlice

\* evtListeners.Range collecting the keys (in no particular order: a set).
EventNames == DOMAIN evtListeners

\* emitter.Len: evtListeners.Range counting the keys.
EmitterLen == Cardinality(DOMAIN evtListeners)

\* The listeners registered for evt, in order, as Emit would now read them.
Registered(evt) == IF Load(evt).ok THEN Elems(heap, Load(evt).val) ELSE <<>>

----------------------------------------------------------------------------
(* Goroutines and calls                                                    *)

Top(t) == stack[t][Len(stack[t])]

\* A goroutine can start a call when it is between calls, or inside a
\* listener body that has not yet called back into the emitter.
Ready(t) ==
  /\ pc[t] = "idle"
  /\ IF Len(stack[t]) = 0 THEN ret[t] = NoRet ELSE Top(t).inL /\ ~Top(t).cb

\* The call made from a listener body has returned to that body.
Returned(st, t) ==
  IF Len(st[t]) = 0 THEN st ELSE [st EXCEPT ![t][Len(st[t])].cb = TRUE]

\* A listener body drops what its call returned; top-level code keeps it.
Result(t, op, evt, arg, val) ==
  IF Len(stack[t]) = 0
    THEN [ret EXCEPT ![t] = [op |-> op, evt |-> evt, arg |-> arg, val |-> val]]
    ELSE ret

NoName == ""

\* A write of the registry happens under the eyes of every Emit in flight.
Dirty(st) ==
  [t \in Goroutines |->
     IF Len(st[t]) = 0 THEN <<>>
     ELSE [i \in 1..Len(st[t]) |-> [st[t][i] EXCEPT !.clean = FALSE]]]

Count(ls, l) == Cardinality({i \in 1..Len(ls) : ls[i] = l})

\* History: a write that leaves the registry as reg over heap h has removed,
\* for every Emit in flight, the listeners of its name that are registered
\* fewer times than before.
Gone(st, h, reg) ==
  LET after(n) == IF n \in DOMAIN reg THEN Elems(h, reg[n]) ELSE <<>>
      less(n) == {l \in Range(Registered(n)) : Count(after(n), l) < Count(Registered(n), l)}
  IN  [t \in Goroutines |->
         IF Len(st[t]) = 0 THEN <<>>
         ELSE [i \in 1..Len(st[t]) |->
                 [st[t][i] EXCEPT !.gone = @ \cup less(st[t][i].evt)]]]

\* Listeners registered now, and those that calls not yet finished may
\* still append.
Total == LET RECURSIVE Sum(_)
             Sum(N) == IF N = {} THEN 0
                       ELSE LET n == CHOOSE x \in N : TRUE
                            IN  ListenerCount(n) + Sum(N \ {n})
         IN  Sum(DOMAIN evtListeners)

Pending ==
  LET adding == {t \in Goroutines : pc[t] # "idle"
                                     /\ call[t].op \in {"AddListener", "On", "Once"}}
      RECURSIVE Sum(_)
      Sum(T) == IF T = {} THEN 0
                ELSE LET t == CHOOSE x \in T : TRUE
                     IN  Len(call[t].listeners) + Sum(T \ {t})
  IN  Sum(adding)

Fits(ls) == Total + Pending + Len(ls) <= MaxLen

EmptyMap == [n \in {} |-> NilSlice]
NoOnce == [p \in {} |-> 0]
OnceOff == [p \in {<<"off", "off">>} |-> 0]
NonePassed == [n \in Names |-> 0]
NotFresh == fresh' = FALSE /\ passed' = NonePassed

\* History of Once (kept when once # OnceOff): the pairs registered through
\* Once and through nothing else, dropped when the registration is removed.
OnceAdded(op, evt, ls, appended) ==
  LET touched == {<<evt, ls[i]>> : i \in 1..Len(ls)}
      now == Range(Registered(evt))
  IN  IF once = OnceOff \/ ~appended THEN once
      ELSE IF op = "Once"
        THEN [p \in DOMAIN once \cup {q \in touched : q[2] \notin now} |->
                IF p \in DOMAIN once THEN once[p] ELSE 0]
      ELSE [p \in DOMAIN once \ touched |-> once[p]]

OnceKept(reg, h) ==
  IF once = OnceOff THEN once
  ELSE [p \in {q \in DOMAIN once :
                 q[1] \in DOMAIN reg /\ q[2] \in Range(Elems(h, reg[q[1]]))} |-> once[p]]

OnceInvoked(p) ==
  IF once = OnceOff THEN once
  ELSE IF p \in DOMAIN once THEN [once EXCEPT ![p] = IF @ < 2 THEN @ + 1 ELSE @]
  ELSE once

----------------------------------------------------------------------------
(* AddListener, On, Once  (events.go 56-71, 135-137, 143-145): what the    *)
(* method does between e.mu.Lock() and the deferred e.mu.Unlock()          *)

\* An AddListener without the capacity test.
FullNever(max1, max2, n) == FALSE

\* The capacity test of AddListener without its `e.maxListeners > 0`.
FullAtZero(max1, max2, n) == n >= max2

\* e.maxListeners > 0 && len(currentListeners) >= e.maxListeners: the field
\* is read twice, max1 then max2.
Full(max1, max2, n) == max1 > 0 /\ n >= max2

\* What LoadOrStore(evt, []Listener{}) returns: the slice stored under
\* evt, or the empty one it stores there.
LoadOrStore(evt) == IF Load(evt).ok THEN Load(evt).val ELSE EmptySlice

\* max1 is the value the first read of e.maxListeners saw and cur the slice
\* LoadOrStore returned.
AddListenerBody(t, op, evt, listeners, max1, cur) ==
  LET currentListeners == cur
      stored == [n \in DOMAIN evtListeners \cup {evt} |->
                   IF n \in DOMAIN evtListeners THEN evtListeners[n] ELSE EmptySlice]
      full == Full(max1, maxListeners, currentListeners.len)
      app == GoAppend(heap, currentListeners, listeners)
  IN  /\ IF full
           THEN Commit(heap, stored, Returned(stack, t), Result(t, op, evt, listeners, 0))
           ELSE Commit(app.heap, [stored EXCEPT ![evt] = app.s],
                       Returned(Dirty(stack), t), Result(t, op, evt, listeners, 0))
      /\ once' = OnceAdded(op, evt, listeners, ~full)
      /\ IF fresh /\ op \in {"AddListener", "On"}
           THEN /\ fresh' = TRUE
                /\ passed' = [passed EXCEPT ![evt] = @ + Len(listeners)]
           ELSE NotFresh
      /\ UNCHANGED maxListeners

----------------------------------------------------------------------------
(* RemoveListener  (events.go 164-178)                                     *)

\* reflect.ValueOf(l).Pointer() == reflect.ValueOf(listener).Pointer()
SameListener(l, listener) == Pointer(l) = Pointer(listener)

\* The index (from 1) of the first element the loop matches, 0 if none.
FirstMatch(ls, listener) ==
  LET hits == {i \in 1..Len(ls) : SameListener(ls[i], listener)}
  IN  IF hits = {} THEN 0 ELSE CHOOSE i \in hits : \A j \in hits : i <= j

\* A Store that drops the key when the slice it is given is empty.
StoreOrDrop(evt, s) ==
  IF s.len = 0 THEN [n \in DOMAIN evtListeners \ {evt} |-> evtListeners[n]]
  ELSE [evtListeners EXCEPT ![evt] = s]

\* e.evtListeners.Store(evt, s) for a key that is there.
Store(evt, s) == [evtListeners EXCEPT ![evt] = s]

\* (i and the result of the append are bound by \in rather than LET so that
\* they are computed once.)
RemoveListenerBody(t, evt, listener) ==
  LET loaded == Load(evt)
      listeners == loaded.val
  IN  /\ \E i \in {IF loaded.ok THEN FirstMatch(Elems(heap, listeners), listener) ELSE 0} :
           IF i = 0
             THEN /\ Commit(heap, evtListeners, Returned(stack, t),
                            Result(t, "RemoveListener", evt, listener, FALSE))
                  /\ once' = once
             \* append(listeners[:i], listeners[i+1:]...), i counted from 0
             ELSE \E app \in {GoAppend(heap, [arr |-> listeners.arr, len |-> i - 1],
                                        SubSeq(ArrOf(heap, listeners.arr), i + 1,
                                               listeners.len))} :
                    \E stored \in {Store(evt, app.s)} :
                      /\ Commit(app.heap, stored,
                                Returned(Gone(Dirty(stack), app.heap, stored), t),
                                Result(t, "RemoveListener", evt, listener, TRUE))
                      /\ once' = OnceKept(stored, app.heap)
      /\ NotFresh
      /\ UNCHANGED maxListeners

----------------------------------------------------------------------------
(* RemoveAllListeners, Clear  (events.go 151-158, 184-189)                 *)

\* A Delete that takes every entry away.
DeleteEvery(evt) == EmptyMap

\* A Delete that leaves the entry in the map.
DeleteNothing(evt) == evtListeners

\* e.evtListeners.Delete(evt)
Delete(evt) == [n \in DOMAIN evtListeners \ {evt} |-> evtListeners[n]]

RemoveAllListenersBody(t, evt) ==
  LET deleted == Delete(evt)
      found == evt \in DOMAIN deleted
  IN  /\ Commit(heap, deleted, Returned(Gone(Dirty(stack), heap, deleted), t),
                Result(t, "RemoveAllListeners", evt, 0, ~found))
      /\ once' = OnceKept(deleted, heap)
      /\ NotFresh
      /\ UNCHANGED maxListeners

\* A Clear that leaves the map as it is.
ClearKeeps == evtListeners

\* e.evtListeners = sync.Map{}
Cleared == EmptyMap

ClearBody(t) ==
  /\ Commit(heap, Cleared, Returned(Gone(Dirty(stack), heap, Cleared), t),
            Result(t, "Clear", NoName, 0, 0))
  /\ once' = IF once = OnceOff THEN once ELSE NoOnce
  /\ NotFresh
  /\ UNCHANGED maxListeners

\* The body of the method that call c names.
Body(t, c) ==
  CASE c.op \in {"AddListener", "On", "Once"} ->
         AddListenerBody(t, c.op, c.evt, c.listeners, c.max1, c.cur)
    [] c.op = "RemoveListener" -> RemoveListenerBody(t, c.evt, c.listener)
    [] c.op = "RemoveAllListeners" -> RemoveAllListenersBody(t, c.evt)
    [] c.op = "Clear" -> ClearBody(t)

----------------------------------------------------------------------------
(* The locking methods called by one goroutine with nobody in the way:     *)
(* Lock, body and Unlock in one step                                       *)

Alone(t) ==
  /\ Ready(t)
  /\ mu = 0
  /\ actor' = t /\ fault' = FALSE
  /\ UNCHANGED <<mu, pc, call>>

AddListener(t, evt, listeners) ==
  Alone(t) /\ Fits(listeners) /\ AddListenerBody(t, "AddListener", evt, listeners, maxListeners,
                     LoadOrStore(evt))

On(t, evt, listeners) ==
  Alone(t) /\ Fits(listeners) /\ AddListenerBody(t, "On", evt, listeners, maxListeners,
                     LoadOrStore(evt))

Once(t, evt, listeners) ==
  Alone(t) /\ Fits(listeners) /\ AddListenerBody(t, "Once", evt, listeners, maxListeners,
                     LoadOrStore(evt))

RemoveListener(t, evt, listener) == Alone(t) /\ RemoveListenerBody(t, evt, listener)

RemoveAllListeners(t, evt) == Alone(t) /\ RemoveAllListenersBody(t, evt)

Clear(t) == Alone(t) /\ ClearBody(t)

----------------------------------------------------------------------------
(* The same methods step by step, for goroutines that interleave           *)

\* Entering a locking method: the goroutine reaches e.mu.Lock().
Invoke(t, c) ==
  /\ Ready(t)
  /\ c.op \in {"AddListener", "On", "Once"} => Fits(c.listeners)
  /\ pc' = [pc EXCEPT ![t] = "wait"]
  /\ call' = [call EXCEPT ![t] = c]
  /\ actor' = t /\ fault' = FALSE
  /\ UNCHANGED <<maxListeners, evtListeners, heap, mu, stack, ret, fresh, passed, once>>

\* A Lock that excludes nobody.
LockNoWait(t) ==
  /\ pc[t] = "wait"
  /\ mu' = t
  /\ pc' = [pc EXCEPT ![t] = "crit"]
  /\ actor' = t /\ fault' = FALSE
  /\ UNCHANGED <<maxListeners, evtListeners, heap, call, stack, ret, fresh, passed, once>>

\* e.mu.Lock() succeeds.
Lock(t) ==
  /\ pc[t] = "wait"
  /\ mu = 0
  /\ mu' = t
  /\ pc' = [pc EXCEPT ![t] = "crit"]
  /\ actor' = t /\ fault' = FALSE
  /\ UNCHANGED <<maxListeners, evtListeners, heap, call, stack, ret, fresh, passed, once>>

\* AddListener up to the first read of e.maxListeners: LoadOrStore has put
\* an empty slice under a key that was absent and returned the slice that
\* is there now.
AddListenerLoad(t) ==
  /\ pc[t] = "crit"
  /\ call[t].op \in {"AddListener", "On", "Once"}
  /\ LET evt == call[t].evt
         stored == [n \in DOMAIN evtListeners \cup {evt} |->
                      IF n \in DOMAIN evtListeners THEN evtListeners[n] ELSE EmptySlice]
     IN  Commit(heap, stored,
                IF Load(evt).ok THEN stack ELSE Dirty(stack), ret)
  /\ pc' = [pc EXCEPT ![t] = "stored"]
  /\ call' = [call EXCEPT ![t] = [op |-> @.op, evt |-> @.evt, listeners |-> @.listeners,
                                   max1 |-> maxListeners,
                                   cur |-> evtListeners'[@.evt]]]
  /\ actor' = t /\ fault' = FALSE
  /\ UNCHANGED <<maxListeners, mu, fresh, passed, once>>

\* The rest of the body, the deferred e.mu.Unlock() and the return.
Locked(t, op) ==
  /\ pc[t] = IF op \in {"AddListener", "On", "Once"} THEN "stored" ELSE "crit"
  /\ call[t].op = op
  /\ Body(t, call[t])
  /\ mu' = 0
  /\ pc' = [pc EXCEPT ![t] = "idle"]
  /\ call' = [call EXCEPT ![t] = NoCall]
  /\ actor' = t /\ fault' = FALSE

AddListenerLocked(t) == Locked(t, "AddListener")
RemoveListenerLocked(t) == Locked(t, "RemoveListener")
RemoveAllListenersLocked(t) == Locked(t, "RemoveAllListeners")
ClearLocked(t) == Locked(t, "Clear")

----------------------------------------------------------------------------
(* SetMaxListeners and the read-only calls  (events.go 195-203, 90-129,    *)
(* 209-216): no lock is taken                                              *)

\* SetMaxListeners without its validation.
RejectedNever(n) == FALSE

\* if n < 0 { ... return }
Rejected(n) == n < 0

SetMaxListeners(t, n) ==
  /\ Ready(t)
  /\ IF Rejected(n) THEN maxListeners' = maxListeners ELSE maxListeners' = n
  /\ Commit(heap, evtListeners, Returned(stack, t), Result(t, "SetMaxListeners", NoName, n, 0))
  /\ actor' = t /\ fault' = FALSE
  /\ NotFresh
  /\ UNCHANGED <<mu, pc, call, once>>

Answer(t, op, evt, val) ==
  /\ Ready(t)
  /\ Commit(heap, evtListeners, Returned(stack, t), Result(t, op, evt, 0, val))
  /\ actor' = t /\ fault' = FALSE
  /\ NotFresh
  /\ UNCHANGED <<maxListeners, mu, pc, call, once>>

CallGetMaxListeners(t) == Answer(t, "GetMaxListeners", NoName, GetMaxListeners)

CallListenerCount(t, evt) == Answer(t, "ListenerCount", evt, ListenerCount(evt))

\* The result is the slice header; with it is kept, as history (arg), what
\* the slice held when it was returned.
CallListeners(t, evt) ==
  /\ Ready(t)
  /\ Commit(heap, evtListeners, Returned(stack, t),
            Result(t, "Listeners", evt, Registered(evt), Listeners(evt)))
  /\ actor' = t /\ fault' = FALSE
  /\ NotFresh
  /\ UNCHANGED <<maxListeners, mu, pc, call, once>>

CallEventNames(t) == Answer(t, "EventNames", NoName, EventNames)

CallLen(t) == Answer(t, "Len", NoName, EmitterLen)

----------------------------------------------------------------------------
(* Emit  (events.go 77-84)                                                 *)

\* Emit loads the slice once; the range loop fixes its header (array and
\* len) at that moment and reads element i from the array at iteration i.
\* start, log, clean and gone are history: the listeners registered at the
\* Load, the invocations made so far, whether the registry was left alone,
\* and the listeners of the name removed since.
Frame(evt, data, s) ==
  [evt |-> evt, data |-> data, s |-> s, i |-> 0, inL |-> FALSE, cb |-> FALSE,
   start |-> Elems(heap, s), log |-> <<>>, clean |-> TRUE, gone |-> {}]

\* An Emit that takes e.mu for the length of its loop.
EmitLocking(t) == mu = 0 /\ mu' = t

\* Emit takes no lock.
EmitNoLock(t) == UNCHANGED mu

Emit(t, evt, data) ==
  /\ Ready(t)
  /\ EmitNoLock(t)
  /\ Len(stack[t]) < MaxDepth
  /\ IF Load(evt).ok
       THEN Commit(heap, evtListeners,
                   [stack EXCEPT ![t] = Append(@, Frame(evt, data, Load(evt).val))],
                   [ret EXCEPT ![t] = NoRet])
       ELSE Commit(heap, evtListeners, Returned(stack, t), Result(t, "Emit", evt, data, <<>>))
  /\ actor' = t /\ fault' = FALSE
  /\ NotFresh
  /\ UNCHANGED <<maxListeners, pc, call, once>>

\* A loop running from the last element to the first.
NextListenerBackwards(f) == ArrOf(heap, f.s.arr)[f.s.len - f.i]

\* The element the loop reads at its next iteration.
NextListener(f) == ArrOf(heap, f.s.arr)[f.i + 1]

\* The arguments the loop passes to the listener.
Passed(f) == f.data

\* for _, listener := range listeners { listener(data...)
EmitListener(t) ==
  /\ pc[t] = "idle"
  /\ Len(stack[t]) > 0
  /\ ~Top(t).inL
  /\ Top(t).i < Top(t).s.len
  /\ LET f == Top(t)
         listener == NextListener(f)
     IN  /\ Commit(heap, evtListeners,
                   [stack EXCEPT ![t][Len(stack[t])] =
                      [f EXCEPT !.inL = TRUE, !.cb = FALSE,
                                !.log = Append(@, <<listener, Passed(f)>>)]],
                   ret)
         /\ once' = OnceInvoked(<<f.evt, listener>>)
  /\ actor' = t /\ fault' = FALSE
  /\ UNCHANGED <<maxListeners, mu, pc, call, fresh, passed>>

\* The listener body returns; the loop moves to the next index.
ListenerReturn(t) ==
  /\ pc[t] = "idle"
  /\ Len(stack[t]) > 0
  /\ Top(t).inL
  /\ Commit(heap, evtListeners,
            [stack EXCEPT ![t][Len(stack[t])] =
               [Top(t) EXCEPT !.inL = FALSE, !.i = @ + 1]],
            ret)
  /\ actor' = t /\ fault' = FALSE
  /\ UNCHANGED <<maxListeners, mu, pc, call, fresh, passed, once>>

\* The loop is over: Emit returns.
EmitReturn(t) ==
  /\ pc[t] = "idle"
  /\ Len(stack[t]) > 0
  /\ ~Top(t).inL
  /\ Top(t).i = Top(t).s.len
  /\ LET f == Top(t)
         popped == [stack EXCEPT ![t] = SubSeq(@, 1, Len(@) - 1)]
     IN  Commit(heap, evtListeners, Returned(popped, t),
                IF Len(popped[t]) = 0
                  THEN [ret EXCEPT ![t] = [op |-> "Emit", evt |-> f.evt, arg |-> f.data,
                                           val |-> f.log]]
                  ELSE ret)
  /\ actor' = t /\ fault' = FALSE
  /\ UNCHANGED <<maxListeners, mu, pc, call, fresh, passed, once>>

\* A fault that Emit catches, going on with the next listener.
Isolated(st, t) ==
  [st EXCEPT ![t][Len(st[t])] = [@ EXCEPT !.inL = FALSE, !.i = @ + 1]]

\* Emit has no recover: a panic in listener(data...) leaves Emit at once.
Unwound(st, t) == [st EXCEPT ![t] = SubSeq(@, 1, Len(@) - 1)]

\* The listener body panics.  The panic reaches the caller of Emit: a
\* listener body of an outer Emit, which may go on or panic in turn, or the
\* top-level code, which gets it in place of a return.
ListenerPanics(t) ==
  /\ pc[t] = "idle"
  /\ Len(stack[t]) > 0
  /\ Top(t).inL
  /\ LET f == Top(t)
         left == Unwound(stack, t)
     IN  Commit(heap, evtListeners, Returned(left, t),
                IF Len(left[t]) = 0
                  THEN [ret EXCEPT ![t] = [op |-> "EmitPanic", evt |-> f.evt,
                                           arg |-> f.data, val |-> f.log]]
                  ELSE ret)
  /\ actor' = t /\ fault' = TRUE
  /\ UNCHANGED <<maxListeners, mu, pc, call, fresh, passed, once>>

\* The top-level code takes the result of the call and goes on.
Return(t) ==
  /\ pc[t] = "idle"
  /\ Len(stack[t]) = 0
  /\ ret[t] # NoRet
  /\ Commit(heap, evtListeners, stack, [ret EXCEPT ![t] = NoRet])
  /\ actor' = t /\ fault' = FALSE
  /\ UNCHANGED <<maxListeners, mu, pc, call, fresh, passed, once>>

----------------------------------------------------------------------------
(* The emitter after New()  (events.go 43-45), and its behaviours          *)

Start ==
  /\ maxListeners = DefaultMaxListeners
  /\ evtListeners = EmptyMap
  /\ heap = [a \in ArrIds |-> <<>>]
  /\ mu = 0
  /\ pc = [t \in Goroutines |-> "idle"]
  /\ call = [t \in Goroutines |-> NoCall]
  /\ stack = [t \in Goroutines |-> <<>>]
  /\ ret = [t \in Goroutines |-> NoRet]
  /\ actor = 1
  /\ fault = FALSE
  /\ fresh = TRUE
  /\ passed = NonePassed

Init == Start /\ once = OnceOff

\* The goroutine's top-level code is between calls.
AtTop(t) == Len(stack[t]) = 0

\* One goroutine using the emitter, every method with any arguments; its
\* listeners leave the emitter alone.
Next ==
  \/ AtTop(1) /\ \E evt \in Names, ls \in ArgLists : AddListener(1, evt, ls)
  \/ AtTop(1) /\ \E evt \in Names, ls \in ArgLists : On(1, evt, ls)
  \/ AtTop(1) /\ \E evt \in Names, ls \in ArgLists : Once(1, evt, ls)
  \/ AtTop(1) /\ \E evt \in Names, l \in ListenerSet : RemoveListener(1, evt, l)
  \/ AtTop(1) /\ \E evt \in Names : RemoveAllListeners(1, evt)
  \/ AtTop(1) /\ Clear(1)
  \/ AtTop(1) /\ \E n \in -1..MaxCap : SetMaxListeners(1, n)
  \/ AtTop(1) /\ CallGetMaxListeners(1)
  \/ AtTop(1) /\ \E evt \in Names : CallListenerCount(1, evt)
  \/ AtTop(1) /\ \E evt \in Names : CallListeners(1, evt)
  \/ AtTop(1) /\ CallEventNames(1)
  \/ AtTop(1) /\ CallLen(1)
  \/ AtTop(1) /\ \E evt \in Names, data \in Payloads : Emit(1, evt, data)
  \/ EmitListener(1)
  \/ ListenerReturn(1)
  \/ EmitReturn(1)
  \/ Return(1)

Spec == Init /\ [][Next]_vars

\* One goroutine registering through Once and On, removing and emitting,
\* with the history of Once kept.
OnceInit == Start /\ once = NoOnce

OnceArgLists == SeqsUpTo({"L1", "L2"}, MaxArgs)

OnceNext ==
  \/ AtTop(1) /\ \E evt \in Names, ls \in OnceArgLists : Once(1, evt, ls)
  \/ AtTop(1) /\ \E evt \in Names, ls \in OnceArgLists : On(1, evt, ls)
  \/ AtTop(1) /\ \E evt \in Names, l \in {"L1", "L2"} : RemoveListener(1, evt, l)
  \/ AtTop(1) /\ \E evt \in Names : Emit(1, evt, <<>>)
  \/ EmitListener(1)
  \/ ListenerReturn(1)
  \/ EmitReturn(1)
  \/ Return(1)

OnceSpec == OnceInit /\ [][OnceNext]_vars

----------------------------------------------------------------------------
(* Goroutines taking the methods step by step.  A listener body may call   *)
(* back into the emitter once: any locking method, SetMaxListeners or, up  *)
(* to MaxDepth frames, Emit.  On and Once are AddListener here.            *)

StepNames == {"a"}
StepArgLists == {<<"L1">>, <<"L2", "L1b">>}
StepCaps == {-1, 1}

LiveArgLists == {<<"L1">>, <<"L2">>}

StepCalls(argLists) ==
  [op : {"AddListener"}, evt : StepNames, listeners : argLists]
    \cup [op : {"RemoveListener"}, evt : StepNames, listener : {"L1"}]
    \cup [op : {"RemoveAllListeners"}, evt : StepNames]
    \cup [op : {"Clear"}, evt : {NoName}]

\* Entering a method that writes.
Write(t, argLists) ==
  \/ \E c \in StepCalls(argLists) : Invoke(t, c)
  \/ \E n \in StepCaps : SetMaxListeners(t, n)

\* Going on inside it, and taking its result.
Proceed(t) ==
  \/ Lock(t)
  \/ AddListenerLoad(t)
  \/ AddListenerLocked(t)
  \/ RemoveListenerLocked(t)
  \/ RemoveAllListenersLocked(t)
  \/ ClearLocked(t)
  \/ Return(t)

\* Emit and its loop.
Emitting(t) ==
  \/ \E evt \in StepNames : Emit(t, evt, <<"x", "y">>)
  \/ EmitListener(t)
  \/ ListenerReturn(t)
  \/ EmitReturn(t)

\* One goroutine, which keeps running while it has a step to take.
LiveNext == Write(1, LiveArgLists) \/ Proceed(1) \/ Emitting(1)

LiveSpec == Init /\ [][LiveNext]_vars /\ WF_vars(LiveNext)

\* One goroutine whose listeners may also panic.
FaultNext == Write(1, LiveArgLists) \/ Proceed(1) \/ Emitting(1) \/ ListenerPanics(1)

FaultSpec == Init /\ [][FaultNext]_vars

\* Goroutine 2 asks for Listeners(name) and keeps the slice while goroutine
\* 1 goes on calling the methods that write, one whole call at a time.
HoldNext ==
  \/ \E evt \in StepNames : CallListeners(2, evt)
  \/ Return(2)
  \/ \E evt \in StepNames, ls \in StepArgLists : AddListener(1, evt, ls)
  \/ \E evt \in StepNames, l \in {"L1", "L2"} : RemoveListener(1, evt, l)
  \/ \E evt \in StepNames : RemoveAllListeners(1, evt)
  \/ Clear(1)
  \/ Return(1)

HoldSpec == Init /\ [][HoldNext]_vars

\* Two goroutines calling AddListener on any names, interleaved in every way.
AddCalls == [op : {"AddListener"}, evt : Names, listeners : StepArgLists]

AddNext ==
  \E t \in Goroutines :
    \/ \E c \in AddCalls : Invoke(t, c)
    \/ Lock(t)
    \/ AddListenerLoad(t)
    \/ AddListenerLocked(t)
    \/ Return(t)

AddSpec == Init /\ [][AddNext]_vars

\* Two goroutines calling the writing methods, interleaved in every way.
ConcNext == \E t \in Goroutines : Write(t, StepArgLists) \/ Proceed(t)

ConcSpec == Init /\ [][ConcNext]_vars

----------------------------------------------------------------------------
(* Properties of one goroutine's calls (Spec)                              *)

\* The call of goroutine 1 that this step completes, if any.
Completes(op) == ret[1] = NoRet /\ ret'[1] # NoRet /\ ret'[1].op = op

Without(ls, i) == SubSeq(ls, 1, i - 1) \o SubSeq(ls, i + 1, Len(ls))

\* The listeners registered for n after the step.
After(n) == IF n \in DOMAIN evtListeners' THEN Elems(heap', evtListeners'[n]) ELSE <<>>

FirstOf(ls, l) == CHOOSE i \in 1..Len(ls) : ls[i] = l /\ \A j \in 1..(i - 1) : ls[j] # l

\* C1: on a fresh emitter with unlimited capacity, after any sequence of
\* AddListener/On calls, ListenerCount(name) is the total number of
\* listeners passed for that name, for every name.
C1_CountIsTotalPassed ==
  fresh => maxListeners = 0 /\ \A n \in Names : ListenerCount(n) = passed[n]

C1_Witness ==
  /\ fresh
  /\ ret[1] # NoRet /\ ret[1].op = "On"
  /\ passed["a"] = 2 /\ passed["b"] = 1
  /\ ListenerCount("a") = 2

Invocations(ls, data) == [j \in 1..Len(ls) |-> <<ls[j], data>>]

\* C2: an Emit during which nothing mutates the registry invokes the
\* listeners registered for its name at its start, each once per
\* registration, in the order they were added, each with the payload of the
\* call, and nothing else.
C2_EmitInOrder ==
  \A t \in Goroutines : \A k \in 1..Len(stack[t]) :
    LET f == stack[t][k]
        done == IF f.inL THEN f.i + 1 ELSE f.i
    IN  f.clean => /\ f.start = Registered(f.evt)
                   /\ f.log = Invocations(SubSeq(f.start, 1, done), f.data)

C2_Witness ==
  /\ Len(stack[1]) = 1
  /\ LET f == stack[1][1]
     IN  /\ f.clean /\ ~f.inL /\ f.i = f.s.len
         /\ f.log = <<<<"L2", <<"x", "y">>>>, <<"L1", <<"x", "y">>>>>>
         /\ f.evt = "a"
         /\ ListenerCount("b") = 1

WithinCap == \A n \in Names : ListenerCount(n) <= maxListeners

\* C3: with MaxListeners = n > 0 and no name holding more than n listeners,
\* no AddListener/On/Once call, whatever it passes, leaves a name with more
\* than n listeners.
C3_NeverAboveCap ==
  [][(maxListeners > 0 /\ WithinCap /\ maxListeners' = maxListeners) => WithinCap']_vars

\* C5: RemoveListener(name, L) with L registered for name removes the first
\* registration of L and nothing else: the count drops by one and the other
\* registrations stay where they were, in order.
C5_RemovesFirstRegistration ==
  [][Completes("RemoveListener") =>
       LET evt == ret'[1].evt
           L == ret'[1].arg
           before == Registered(evt)
       IN  Count(before, L) >= 1 =>
             /\ Len(After(evt)) = ListenerCount(evt) - 1
             /\ After(evt) = Without(before, FirstOf(before, L))]_vars

\* C6: RemoveListener(name, L) removes no registration of a listener other
\* than L, and returns false when L itself is not registered for name.
C6_MatchesByIdentity ==
  [][Completes("RemoveListener") =>
       LET evt == ret'[1].evt
           L == ret'[1].arg
           before == Registered(evt)
       IN  /\ \A l \in ListenerSet \ {L} : Count(After(evt), l) = Count(before, l)
           /\ Count(before, L) = 0 => ret'[1].val = FALSE]_vars

\* C7: RemoveListener(name, L) returns true exactly when a registration of L
\* existed for name and was removed, and leaves the registry as it was when
\* it returns false.
C7_TrueIffRemoved ==
  [][Completes("RemoveListener") =>
       LET evt == ret'[1].evt
           L == ret'[1].arg
           before == Registered(evt)
       IN  /\ ret'[1].val = TRUE <=>
                (Count(before, L) >= 1 /\ Count(After(evt), L) = Count(before, L) - 1)
           /\ ret'[1].val = FALSE =>
                (EventNames' = EventNames /\ \A n \in Names : After(n) = Registered(n))]_vars

\* C10: SetMaxListeners(n) with n < 0 leaves GetMaxListeners() and the
\* registry as they were, SetMaxListeners(n) with n >= 0 makes
\* GetMaxListeners() return n, and GetMaxListeners() is never negative.
C10_SetMaxListeners ==
  /\ [](GetMaxListeners >= 0)
  /\ [][Completes("SetMaxListeners") =>
          IF ret'[1].arg < 0
            THEN /\ GetMaxListeners' = GetMaxListeners
                 /\ EventNames' = EventNames
                 /\ \A n \in Names : After(n) = Registered(n)
            ELSE GetMaxListeners' = ret'[1].arg]_vars

C10_Witness ==
  /\ ret[1] # NoRet /\ ret[1].op = "SetMaxListeners" /\ ret[1].arg = -1
  /\ GetMaxListeners = 2
  /\ ListenerCount("a") = 1

\* C12: after Clear(), whatever the registry held, Len() is 0, EventNames()
\* is empty and ListenerCount(name) is 0 for every name, and MaxListeners
\* has the value it had.
C12_ClearEmpties ==
  [][Completes("Clear") =>
       /\ EmitterLen' = 0
       /\ EventNames' = {}
       /\ \A n \in Names : ListenerCount(n)' = 0
       /\ GetMaxListeners' = GetMaxListeners]_vars

C12_Witness ==
  /\ ret[1] # NoRet /\ ret[1].op = "Clear"
  /\ GetMaxListeners = 2
  /\ EmitterLen = 0 /\ ListenerCount("a") = 0

\* C13: an AddListener (On, Once) call made with MaxListeners > 0 and the
\* count of its name at or above MaxListeners adds none of its listeners and
\* leaves the event names and every name's listeners as they were.
C13_FullIsNoOp ==
  [][(Completes("AddListener") \/ Completes("On") \/ Completes("Once")) =>
       ((GetMaxListeners > 0 /\ ListenerCount(ret'[1].evt) >= GetMaxListeners) =>
          /\ EventNames' = EventNames
          /\ \A n \in Names : After(n) = Registered(n)
          /\ GetMaxListeners' = GetMaxListeners)]_vars

C13_Witness ==
  /\ ret[1] # NoRet /\ ret[1].op = "AddListener" /\ ret[1].evt = "a"
  /\ Len(ret[1].arg) = 2
  /\ GetMaxListeners = 1 /\ ListenerCount("a") = 1

\* C15: a RemoveListener that removes a listener, the last one included,
\* keeps the name among EventNames() and Len() as it was (with
\* ListenerCount(name) 0 after the last one); a name leaves EventNames()
\* only through RemoveAllListeners or Clear; and Len() is always the number
\* of names EventNames() returns.
C15_NameStaysTracked ==
  /\ [](EmitterLen = Cardinality(EventNames))
  /\ [][(Completes("RemoveListener") /\ ret'[1].val = TRUE) =>
          /\ ret'[1].evt \in EventNames'
          /\ EmitterLen' = EmitterLen
          /\ ListenerCount(ret'[1].evt) = 1 => Len(After(ret'[1].evt)) = 0]_vars
  /\ [][(\E n \in EventNames : n \notin EventNames') =>
          (Completes("RemoveAllListeners") \/ Completes("Clear"))]_vars

C15_Witness ==
  /\ ret[1] # NoRet /\ ret[1].op = "RemoveListener" /\ ret[1].val = TRUE
  /\ ret[1].evt = "a" /\ ListenerCount("a") = 0
  /\ EventNames = {"a", "b"} /\ EmitterLen = 2

\* C16: for a name with no entry, ListenerCount returns 0, Listeners
\* returns nil, Emit invokes nothing and RemoveListener returns false, and
\* each of these calls leaves the name absent and EventNames(), Len() and
\* every listener sequence as they were.
C16_AbsentNameLookups ==
  [][(ret[1] = NoRet /\ ret'[1] # NoRet
        /\ ret'[1].op \in {"ListenerCount", "Listeners", "Emit", "RemoveListener"}
        /\ ret'[1].evt \notin EventNames) =>
       /\ ret'[1].op = "ListenerCount" => ret'[1].val = 0
       /\ ret'[1].op = "Listeners" => ret'[1].val = NilSlice
       /\ ret'[1].op = "Emit" => ret'[1].val = <<>>
       /\ ret'[1].op = "RemoveListener" => ret'[1].val = FALSE
       /\ EventNames' = EventNames
       /\ EmitterLen' = EmitterLen
       /\ \A n \in Names : After(n) = Registered(n)]_vars

C16_Witness ==
  /\ ret[1] # NoRet /\ ret[1].op = "Listeners" /\ ret[1].evt = "b"
  /\ ret[1].val = NilSlice
  /\ EventNames = {"a"} /\ ListenerCount("a") = 2

\* C20: AddListener (On, Once), RemoveListener and RemoveAllListeners on one
\* name leave every other name, its listeners and their order, and
\* MaxListeners as they were; SetMaxListeners leaves the whole registry as
\* it was, whatever the new cap.
C20_OtherNamesUntouched ==
  [][/\ (\E op \in {"AddListener", "On", "Once", "RemoveListener", "RemoveAllListeners"} :
          Completes(op)) =>
          /\ \A n \in Names \ {ret'[1].evt} :
                /\ After(n) = Registered(n)
                /\ n \in EventNames' <=> n \in EventNames
          /\ GetMaxListeners' = GetMaxListeners
     /\ Completes("SetMaxListeners") =>
          /\ EventNames' = EventNames
          /\ \A n \in Names : After(n) = Registered(n)]_vars

C20_Witness ==
  /\ ret[1] # NoRet /\ ret[1].op = "SetMaxListeners" /\ ret[1].arg = 1
  /\ GetMaxListeners = 1
  /\ ListenerCount("a") = 2 /\ ListenerCount("b") = 1

----------------------------------------------------------------------------
(* Properties of Once (OnceSpec)                                           *)

Quiet == \A t \in Goroutines : Len(stack[t]) = 0

\* C4: a listener registered with Once is invoked at most once, and once it
\* has been invoked (and the Emit has returned) it is no longer among the
\* listeners of its name.
C4_OnceFiresOnce ==
  once # OnceOff =>
    \A p \in DOMAIN once :
      /\ once[p] <= 1
      /\ (once[p] = 1 /\ Quiet) => p[2] \notin Range(Registered(p[1]))

----------------------------------------------------------------------------
(* Properties of the locking (LiveSpec, ConcSpec)                          *)

InEmit(t) == Len(stack[t]) > 0

\* C8: a listener that calls back into the emitter from inside Emit is
\* never left waiting for a lock its own goroutine holds, its call returns,
\* and every Emit comes to its end.
C8_ReentrantEmitEnds ==
  /\ [](\A t \in Goroutines : pc[t] = "wait" => mu # t)
  /\ (InEmit(1) /\ pc[1] = "wait") ~> (pc[1] = "idle")
  /\ InEmit(1) ~> ~InEmit(1)

C8_Witness ==
  /\ Len(stack[1]) = 2
  /\ stack[1][1].s.len = 2
  /\ pc[1] = "crit" /\ call[1].op = "Clear"

CompletesBy(t, op) == ret[t] = NoRet /\ ret'[t] # NoRet /\ ret'[t].op = op

\* C11: RemoveAllListeners(name) returns true whether or not name was
\* present and whatever other goroutines are doing, and when it returns
\* name is not among EventNames() and ListenerCount(name) is 0.
C11_RemoveAllAlwaysTrue ==
  [][\A t \in Goroutines :
       CompletesBy(t, "RemoveAllListeners") =>
         /\ ret'[t].val = TRUE
         /\ ret'[t].evt \notin EventNames'
         /\ After(ret'[t].evt) = <<>>]_vars

C11_Witness ==
  /\ ret[2] # NoRet /\ ret[2].op = "RemoveAllListeners" /\ ret[2].val = TRUE
  /\ pc[1] = "wait" /\ call[1].op = "AddListener" /\ call[1].evt = "a"
  /\ "a" \notin EventNames

\* The listeners an Emit frame has invoked so far, in order.
Invoked(f) == [j \in 1..Len(f.log) |-> f.log[j][1]]

\* C17: whatever its listeners (or anybody else) add or remove meanwhile, an
\* Emit invokes only listeners that were registered for the name when it
\* began, none more often than it was registered then, and, by the end of
\* its loop, every one of them that was not removed meanwhile.
C17_EmitOnSnapshot ==
  \A t \in Goroutines : \A k \in 1..Len(stack[t]) :
    LET f == stack[t][k]
    IN  /\ \A l \in Range(Invoked(f)) : l \in Range(f.start)
        /\ \A l \in ListenerSet : Count(Invoked(f), l) <= Count(f.start, l)
        /\ (~f.inL /\ f.i = f.s.len) =>
              \A l \in Range(f.start) \ f.gone : Count(Invoked(f), l) = Count(f.start, l)

\* C18: with unlimited capacity and goroutines calling AddListener
\* concurrently, once every call has returned ListenerCount(name) is the
\* total number of listeners passed for name, and each call leaves its
\* listeners together, in the order passed, after those already there.
C18_NoLostRegistration ==
  /\ []((fresh /\ \A t \in Goroutines : pc[t] = "idle") =>
          \A n \in Names : ListenerCount(n) = passed[n])
  /\ [][\A t \in Goroutines :
          (fresh' /\ CompletesBy(t, "AddListener")) =>
            After(ret'[t].evt) = Registered(ret'[t].evt) \o ret'[t].arg]_vars

C18_Witness ==
  /\ fresh /\ pc[1] = "idle" /\ pc[2] = "idle"
  /\ ret[1] # NoRet /\ ret[1].op = "AddListener" /\ ret[1].evt = "a"
  /\ ret[2] # NoRet /\ ret[2].op = "AddListener" /\ ret[2].evt = "a"
  /\ ret[1].arg = <<"L1">> /\ ret[2].arg = <<"L2", "L1b">>
  /\ Registered("a") = <<"L2", "L1b", "L1">>
  /\ passed["a"] = 3

\* C19: a slice returned by Listeners(name) keeps its length and its
\* listeners, position by position, whatever RemoveListener, AddListener,
\* RemoveAllListeners or Clear calls follow.
C19_ReturnedSliceStable ==
  \A t \in Goroutines :
    (ret[t] # NoRet /\ ret[t].op = "Listeners") => Elems(heap, ret[t].val) = ret[t].arg

\* C9: every write of the registry or of maxListeners is made by a
\* goroutine that holds e.mu, and maxListeners is never written while
\* another goroutine is inside its critical section.
C9_WritesUnderLock ==
  [][/\ (\E n \in Names : After(n) # Registered(n)) \/ EventNames' # EventNames
          => mu = actor'
     /\ maxListeners' # maxListeners => mu = actor']_vars

====
